---------------------------- MODULE Spec2Model ----------------------------
(***************************************************************************)
(* Model of rbt3 (src/src/lib.rs): the rigid body transform Rbt, a         *)
(* translation Vec3 and a rotation Quat, with its constructors, inverse,   *)
(* composition, application to a Vec4, the Mat4 conversions and            *)
(* do_m_to_o_wrt_a.                                                        *)
(*                                                                         *)
(* Numbers.  The code computes in f32.  The model computes exactly in the  *)
(* field Q(sqrt 2): a scalar is <<a, b, d>>, standing for                  *)
(* (a + b*sqrt(2)) / d in lowest terms with d > 0.  This field holds the   *)
(* components of the 48 unit quaternions of the binary octahedral group    *)
(* (rotations by multiples of 90 degrees about the axes and of 120 degrees *)
(* about the diagonals), which is closed under every operation below.      *)
(* <<0, 0, 0>> is NaN: a float that is not finite or a value that is not   *)
(* exactly representable in the field; it absorbs arithmetic and is        *)
(* unequal to everything under PartialEq, as a float NaN is.               *)
(***************************************************************************)
EXTENDS Integers, Sequences, FiniteSets, TLC

----------------------------------------------------------------------------
(* f32 arithmetic, exact in Q(sqrt 2) *)

Abs(n) ==
    IF n < 0 THEN -n ELSE n

RECURSIVE GCD(_, _)
GCD(m, n) ==
    IF n = 0 THEN m ELSE GCD(n, m % n)

NaN ==
    <<0, 0, 0>>

Num(a, b, d) ==
    IF d = 0 THEN NaN
    ELSE IF d = 1 THEN <<a, b, 1>>
    ELSE LET s == IF d < 0 THEN -1 ELSE 1
             g == GCD(GCD(Abs(a), Abs(b)), Abs(d))
         IN  <<(s * a) \div g, (s * b) \div g, (s * d) \div g>>

F(n) ==
    <<n, 0, 1>>

is_nan(p) ==
    p[3] = 0

\* the sign of a + b*sqrt(2): -1, 0 or 1
Sign(p) ==
    LET a == p[1]
        b == p[2]
    IN  IF a >= 0 /\ b >= 0 THEN (IF a = 0 /\ b = 0 THEN 0 ELSE 1)
        ELSE IF a <= 0 /\ b <= 0 THEN -1
        ELSE IF a > 0 THEN (IF a * a > 2 * b * b THEN 1 ELSE -1)
        ELSE (IF 2 * b * b > a * a THEN 1 ELSE -1)

f_add(p, q) ==
    Num(p[1] * q[3] + q[1] * p[3], p[2] * q[3] + q[2] * p[3], p[3] * q[3])

f_neg(p) ==
    <<-p[1], -p[2], p[3]>>

f_sub(p, q) ==
    f_add(p, f_neg(q))

f_mul(p, q) ==
    Num(p[1] * q[1] + 2 * p[2] * q[2], p[1] * q[2] + p[2] * q[1], p[3] * q[3])

\* 1.0 / p; 1.0 / 0.0 is not finite
f_recip(p) ==
    LET n == p[1] * p[1] - 2 * p[2] * p[2]
    IN  IF is_nan(p) \/ n = 0
        THEN NaN
        ELSE Num(p[1] * p[3], -(p[2] * p[3]), n)

\* p <= 0.0 (false on NaN)
f_le0(p) ==
    ~is_nan(p) /\ Sign(p) <= 0

\* f32 ==: NaN is unequal to everything
f_eq(p, q) ==
    ~is_nan(p) /\ ~is_nan(q) /\ p = q

RECURSIVE ISqrtUp(_, _)
ISqrtUp(n, k) ==
    IF k * k >= n THEN k ELSE ISqrtUp(n, k + 1)

\* sqrt(p): the root in the field when there is one, NaN when p < 0 or
\* the root is not representable.  With p = (N + M*sqrt 2)/d^2, the root
\* (x + y*sqrt 2)/d has x^2 + 2y^2 = N and 2xy = M.
f_sqrt(p) ==
    IF is_nan(p) \/ Sign(p) < 0 THEN NaN
    ELSE LET N == p[1] * p[3]
             M == p[2] * p[3]
             L == ISqrtUp(Abs(N), 0)
             roots == {xy \in (-L..L) \X (-L..L) :
                          /\ xy[1] * xy[1] + 2 * xy[2] * xy[2] = N
                          /\ 2 * xy[1] * xy[2] = M
                          /\ Sign(<<xy[1], xy[2], 1>>) >= 0}
         IN  IF roots = {} THEN NaN
             ELSE LET r == CHOOSE xy \in roots : TRUE
                  IN  Num(r[1], r[2], p[3])


----------------------------------------------------------------------------
(* glam: Vec3 <<x, y, z>>, Vec4 and Quat <<x, y, z, w>>, Mat4 as its four *)
(* columns <<x_axis, y_axis, z_axis, w_axis>>                              *)

Zero ==
    F(0)

One ==
    F(1)

Two ==
    F(2)

Half ==
    Num(1, 0, 2)

\* Vec3::default()
vec3_default ==
    <<Zero, Zero, Zero>>

\* Quat::default(), the identity quaternion
quat_default ==
    <<Zero, Zero, Zero, One>>

vec3_add(u, v) ==
    <<f_add(u[1], v[1]), f_add(u[2], v[2]), f_add(u[3], v[3])>>

vec3_neg(u) ==
    <<f_neg(u[1]), f_neg(u[2]), f_neg(u[3])>>

vec3_scale(u, s) ==
    <<f_mul(u[1], s), f_mul(u[2], s), f_mul(u[3], s)>>

vec3_dot(u, v) ==
    f_add(f_add(f_mul(u[1], v[1]), f_mul(u[2], v[2])), f_mul(u[3], v[3]))

vec3_cross(u, v) ==
    <<f_sub(f_mul(u[2], v[3]), f_mul(v[2], u[3])),
      f_sub(f_mul(u[3], v[1]), f_mul(v[3], u[1])),
      f_sub(f_mul(u[1], v[2]), f_mul(v[1], u[2]))>>

\* Vec4::truncate
truncate(v) ==
    <<v[1], v[2], v[3]>>

\* Vec3::extend
extend(u, w) ==
    <<u[1], u[2], u[3], w>>

vec4_dot(p, q) ==
    f_add(f_add(f_mul(p[1], q[1]), f_mul(p[2], q[2])),
          f_add(f_mul(p[3], q[3]), f_mul(p[4], q[4])))

\* Quat * Quat, the Hamilton product
quat_mul(p, q) ==
    <<f_sub(f_add(f_add(f_mul(p[4], q[1]), f_mul(p[1], q[4])), f_mul(p[2], q[3])),
            f_mul(p[3], q[2])),
      f_add(f_add(f_sub(f_mul(p[4], q[2]), f_mul(p[1], q[3])), f_mul(p[2], q[4])),
            f_mul(p[3], q[1])),
      f_add(f_sub(f_add(f_mul(p[4], q[3]), f_mul(p[1], q[2])), f_mul(p[2], q[1])),
            f_mul(p[3], q[4])),
      f_sub(f_sub(f_sub(f_mul(p[4], q[4]), f_mul(p[1], q[1])), f_mul(p[2], q[2])),
            f_mul(p[3], q[3]))>>

\* Quat * Vec3: v*(w^2 - b.b) + b*(2*(v.b)) + (b x v)*(2*w), b = q.xyz
quat_mul_vec3(q, v) ==
    LET w  == q[4]
        b  == truncate(q)
        b2 == vec3_dot(b, b)
    IN  vec3_add(vec3_add(vec3_scale(v, f_sub(f_mul(w, w), b2)),
                          vec3_scale(b, f_mul(vec3_dot(v, b), Two))),
                 vec3_scale(vec3_cross(b, v), f_mul(w, Two)))

quat_length(q) ==
    f_sqrt(vec4_dot(q, q))

\* Quat::normalize: q * (1 / |q|)
quat_normalize(q) ==
    LET r == f_recip(quat_length(q))
    IN  <<f_mul(q[1], r), f_mul(q[2], r), f_mul(q[3], r), f_mul(q[4], r)>>

\* Quat::from_xyzw
from_xyzw(x, y, z, w) ==
    <<x, y, z, w>>

\* Mat4::from_quat: the rotation matrix of q, w_axis = (0, 0, 0, 1)
mat4_from_quat(q) ==
    LET x  == q[1]
        y  == q[2]
        z  == q[3]
        w  == q[4]
        x2 == f_add(x, x)
        y2 == f_add(y, y)
        z2 == f_add(z, z)
        xx == f_mul(x, x2)
        xy == f_mul(x, y2)
        xz == f_mul(x, z2)
        yy == f_mul(y, y2)
        yz == f_mul(y, z2)
        zz == f_mul(z, z2)
        wx == f_mul(w, x2)
        wy == f_mul(w, y2)
        wz == f_mul(w, z2)
    IN  << <<f_sub(One, f_add(yy, zz)), f_add(xy, wz), f_sub(xz, wy), Zero>>,
           <<f_sub(xy, wz), f_sub(One, f_add(xx, zz)), f_add(yz, wx), Zero>>,
           <<f_add(xz, wy), f_sub(yz, wx), f_sub(One, f_add(xx, yy)), Zero>>,
           <<Zero, Zero, Zero, One>> >>

\* Quat::from_mat4: the quaternion of the upper 3x3 block, its largest
\* component taken positive (m[col][row], as in glam's from_rotation_axes)
quat_from_mat4(m) ==
    LET m00 == m[1][1]
        m01 == m[1][2]
        m02 == m[1][3]
        m10 == m[2][1]
        m11 == m[2][2]
        m12 == m[2][3]
        m20 == m[3][1]
        m21 == m[3][2]
        m22 == m[3][3]
    IN  IF f_le0(m22)
        THEN LET dif10 == f_sub(m11, m00)
                 omm22 == f_sub(One, m22)
             IN  IF f_le0(dif10)
                 THEN LET four_xsq == f_sub(omm22, dif10)
                          inv4x    == f_mul(Half, f_recip(f_sqrt(four_xsq)))
                      IN  from_xyzw(f_mul(four_xsq, inv4x),
                                    f_mul(f_add(m01, m10), inv4x),
                                    f_mul(f_add(m02, m20), inv4x),
                                    f_mul(f_sub(m12, m21), inv4x))
                 ELSE LET four_ysq == f_add(omm22, dif10)
                          inv4y    == f_mul(Half, f_recip(f_sqrt(four_ysq)))
                      IN  from_xyzw(f_mul(f_add(m01, m10), inv4y),
                                    f_mul(four_ysq, inv4y),
                                    f_mul(f_add(m12, m21), inv4y),
                                    f_mul(f_sub(m20, m02), inv4y))
        ELSE LET sum10 == f_add(m11, m00)
                 opm22 == f_add(One, m22)
             IN  IF f_le0(sum10)
                 THEN LET four_zsq == f_sub(opm22, sum10)
                          inv4z    == f_mul(Half, f_recip(f_sqrt(four_zsq)))
                      IN  from_xyzw(f_mul(f_add(m02, m20), inv4z),
                                    f_mul(f_add(m12, m21), inv4z),
                                    f_mul(four_zsq, inv4z),
                                    f_mul(f_sub(m01, m10), inv4z))
                 ELSE LET four_wsq == f_add(opm22, sum10)
                          inv4w    == f_mul(Half, f_recip(f_sqrt(four_wsq)))
                      IN  from_xyzw(f_mul(f_sub(m12, m21), inv4w),
                                    f_mul(f_sub(m20, m02), inv4w),
                                    f_mul(f_sub(m01, m10), inv4w),
                                    f_mul(four_wsq, inv4w))


----------------------------------------------------------------------------
(* Rbt: [translation |-> Vec3, rotation |-> Quat] *)

\* Rbt::new, the derived Default: zero translation, identity rotation
new ==
    [translation |-> vec3_default, rotation |-> quat_default]

from_t(translation) ==
    [translation |-> translation, rotation |-> quat_default]

from_r(rotation) ==
    [translation |-> vec3_default, rotation |-> rotation]

from_t_r(translation, rotation) ==
    [translation |-> translation, rotation |-> rotation]

\* == on Vec3, Vec4 and Quat: component by component, with f32 ==
vec_eq(u, w) ==
    \A i \in DOMAIN u : f_eq(u[i], w[i])

\* the derived PartialEq: field by field
eq(s, t) ==
    /\ vec_eq(s.translation, t.translation)
    /\ vec_eq(s.rotation, t.rotation)

\* the translation read from the fourth row, not the fourth column
from_mat4_fourth_row(mat4) ==
    [translation |-> <<mat4[1][4], mat4[2][4], mat4[3][4]>>,
     rotation    |-> quat_from_mat4(mat4)]

from_mat4(mat4) ==
    [translation |-> truncate(mat4[4]),
     rotation    |-> quat_from_mat4(mat4)]

to_mat4(self) ==
    LET result == mat4_from_quat(self.rotation)
    IN  [result EXCEPT ![4] = extend(self.translation, One)]

\* the translation merely negated, not rotated back
inverse_negated_translation(self) ==
    LET r     == self.rotation
        inv_r == from_xyzw(r[1], r[2], r[3], f_neg(r[4]))
    IN  [translation |-> vec3_neg(self.translation),
         rotation    |-> inv_r]

\* the translation rotated by the rotation itself, not by its inverse
inverse_rotated_forward(self) ==
    LET r     == self.rotation
        inv_r == from_xyzw(r[1], r[2], r[3], f_neg(r[4]))
    IN  [translation |-> vec3_neg(quat_mul_vec3(r, self.translation)),
         rotation    |-> inv_r]

inverse(self) ==
    LET r     == self.rotation
        inv_r == from_xyzw(r[1], r[2], r[3], f_neg(r[4]))
    IN  [translation |-> vec3_neg(quat_mul_vec3(inv_r, self.translation)),
         rotation    |-> inv_r]

\* the product of the rotations left as it is, not normalized
mul_no_normalize(self, rhs) ==
    [translation |-> vec3_add(quat_mul_vec3(self.rotation, rhs.translation),
                              self.translation),
     rotation    |-> quat_mul(self.rotation, rhs.rotation)]

\* the translation of self left out
mul_untranslated(self, rhs) ==
    [translation |-> quat_mul_vec3(self.rotation, rhs.translation),
     rotation    |-> quat_normalize(quat_mul(self.rotation, rhs.rotation))]

\* the translation of rhs rotated by rhs's rotation, not by self's
mul_rhs_rotated(self, rhs) ==
    [translation |-> vec3_add(quat_mul_vec3(rhs.rotation, rhs.translation),
                              self.translation),
     rotation    |-> quat_normalize(quat_mul(self.rotation, rhs.rotation))]

\* the operands taken in the other order
mul_reversed(self, rhs) ==
    [translation |-> vec3_add(quat_mul_vec3(rhs.rotation, self.translation),
                              rhs.translation),
     rotation    |-> quat_normalize(quat_mul(rhs.rotation, self.rotation))]

\* the translation of rhs added as it is, not rotated
mul_unrotated(self, rhs) ==
    [translation |-> vec3_add(rhs.translation, self.translation),
     rotation    |-> quat_normalize(quat_mul(self.rotation, rhs.rotation))]

\* impl Mul for &Rbt (the by-value impls forward to it)
mul(self, rhs) ==
    [translation |-> vec3_add(quat_mul_vec3(self.rotation, rhs.translation),
                              self.translation),
     rotation    |-> quat_normalize(quat_mul(self.rotation, rhs.rotation))]

\* the translation added whatever rhs.w is
mul_vec4_always_translated(self, rhs) ==
    extend(vec3_add(quat_mul_vec3(self.rotation, truncate(rhs)),
                    self.translation),
           rhs[4])

\* impl Mul<Vec4> for &Rbt
mul_vec4(self, rhs) ==
    extend(vec3_add(quat_mul_vec3(self.rotation, truncate(rhs)),
                    vec3_scale(self.translation, rhs[4])),
           rhs[4])

\* a taken where a.inverse() belongs
do_m_to_o_wrt_a_no_inverse(m, o, a) ==
    mul(mul(mul(a, m), a), o)

\* a * m * a.inverse() * o, left to right
do_m_to_o_wrt_a(m, o, a) ==
    mul(mul(mul(a, m), inverse(a)), o)


----------------------------------------------------------------------------
(* Inputs *)

\* how many of QuatSamples, TransSamples and VecSamples are drawn from
NQ ==
    5

NT ==
    2

NV ==
    3

\* the largest translation coordinate a chain of operations may reach
MaxCoord ==
    1

Sqrt2Half ==
    Num(0, 1, 2)

\* Unit quaternions but for the fourth, which is twice the identity (the
\* constructors take any quaternion): the identity, a quarter turn about Z,
\* a third of a turn about a diagonal with w < 0, the one that is not unit,
\* a quarter turn about Y, a half turn about X.
QuatSamples ==
    << quat_default,
       <<Zero, Zero, Sqrt2Half, Sqrt2Half>>,
       <<f_neg(Half), Half, f_neg(Half), f_neg(Half)>>,
       <<Zero, Zero, Zero, Two>>,
       <<Zero, Sqrt2Half, Zero, Sqrt2Half>>,
       <<One, Zero, Zero, Zero>> >>

TransSamples ==
    << <<F(1), F(0), F(0)>>,
       <<F(0), F(-1), F(2)>>,
       <<F(2), F(1), F(-1)>>,
       <<F(-2), F(0), F(1)>> >>

\* a point, a direction, a vector with w = 2, ...
VecSamples ==
    << <<F(0), F(1), F(0), F(1)>>,
       <<F(1), F(-2), F(3), F(0)>>,
       <<F(1), F(-1), F(2), F(2)>>,
       <<F(-3), F(2), F(1), F(1)>>,
       <<F(2), F(0), F(-1), F(-1)>> >>

QuatInputs ==
    {QuatSamples[i] : i \in 1..NQ}

TransInputs ==
    {TransSamples[i] : i \in 1..NT}

VecInputs ==
    {VecSamples[i] : i \in 1..NV}

\* the transforms the four constructors build from the inputs
RbtInputs ==
    {new} \cup {from_t(t) : t \in TransInputs}
          \cup {from_r(q) : q \in QuatInputs}
          \cup {from_t_r(t, q) : t \in TransInputs, q \in QuatInputs}

is_unit(q) ==
    f_eq(vec4_dot(q, q), One)

quat_neg(q) ==
    <<f_neg(q[1]), f_neg(q[2]), f_neg(q[3]), f_neg(q[4])>>

InRange(t) ==
    \A i \in 1..3 : t[i][3] = 1 /\ t[i][2] = 0 /\ Abs(t[i][1]) <= MaxCoord

----------------------------------------------------------------------------
(* State.  Every operation is a pure function, so a behaviour of Spec is   *)
(* one call: op is "init" while the operands a and b are drawn and nothing *)
(* is computed, then the name of the operation called; c and v are its     *)
(* further operands and out_rbt, out_vec, out_mat its result.  A behaviour *)
(* of SpecSeq keeps one transform in a and applies operation after         *)
(* operation to it; unit_in tells that every rotation handed in since the  *)
(* last Rbt::new() was a unit quaternion.                                  *)

VARIABLES a, b, c, v, op, out_rbt, out_vec, out_mat, unit_in

vars ==
    <<a, b, c, v, op, out_rbt, out_vec, out_mat, unit_in>>

vec4_default ==
    <<Zero, Zero, Zero, Zero>>

mat4_identity ==
    mat4_from_quat(quat_default)

Init ==
    /\ a \in RbtInputs
    /\ b \in RbtInputs
    /\ c = new
    /\ v = vec4_default
    /\ op = "init"
    /\ out_rbt = new
    /\ out_vec = vec4_default
    /\ out_mat = mat4_identity
    /\ unit_in = (is_unit(a.rotation) /\ is_unit(b.rotation))

\* a call returns: its operands and result are recorded
Done(name, f, p, r, u, m) ==
    /\ op' = name
    /\ c' = f
    /\ v' = p
    /\ out_rbt' = r
    /\ out_vec' = u
    /\ out_mat' = m
    /\ UNCHANGED <<a, b, unit_in>>

Result(name, r) ==
    Done(name, new, vec4_default, r, vec4_default, mat4_identity)

New ==
    /\ op = "init"
    /\ Result("new", new)

FromT ==
    /\ op = "init"
    /\ \E t \in TransInputs : Result("from_t", from_t(t))

FromR ==
    /\ op = "init"
    /\ \E q \in QuatInputs : Result("from_r", from_r(q))

FromTR ==
    /\ op = "init"
    /\ \E t \in TransInputs, q \in QuatInputs :
           Result("from_t_r", from_t_r(t, q))

\* a.inverse()
Inverse ==
    /\ op = "init"
    /\ Result("inverse", inverse(a))

\* &a * &b
Compose ==
    /\ op = "init"
    /\ Result("mul", mul(a, b))

\* &a * p
Apply ==
    /\ op = "init"
    /\ \E p \in VecInputs :
           Done("mul_vec4", new, p, new, mul_vec4(a, p), mat4_identity)

\* a.to_mat4()
ToMat4 ==
    /\ op = "init"
    /\ Done("to_mat4", new, vec4_default, new, vec4_default, to_mat4(a))

\* Rbt::from_mat4 of the matrix a.to_mat4() returned
FromMat4 ==
    /\ op = "to_mat4"
    /\ Done("from_mat4", new, vec4_default, from_mat4(out_mat), vec4_default,
            out_mat)

\* Rbt::do_m_to_o_wrt_a(&a, &b, &f): m = a, o = b, and the frame f drawn
DoMToOWrtA ==
    /\ op = "init"
    /\ \E f \in RbtInputs :
           Done("do_m_to_o_wrt_a", f, vec4_default, do_m_to_o_wrt_a(a, b, f),
                vec4_default, mat4_identity)

Next ==
    \/ New
    \/ FromT
    \/ FromR
    \/ FromTR
    \/ Inverse
    \/ Compose
    \/ Apply
    \/ ToMat4
    \/ FromMat4
    \/ DoMToOWrtA

Spec ==
    Init /\ [][Next]_vars

----------------------------------------------------------------------------
(* Chains of operations on one transform *)

\* the operands of a chain: a quarter turn about Z with a translation, a
\* third of a turn about a diagonal, a translation, and a rotation that is
\* not a unit quaternion
SeqInputs ==
    { from_t_r(TransSamples[1], QuatSamples[2]),
      from_r(QuatSamples[3]),
      from_t(TransSamples[1]),
      from_r(QuatSamples[4]) }

InitSeq ==
    /\ a = new
    /\ b = new
    /\ c = new
    /\ v = vec4_default
    /\ op = "new"
    /\ out_rbt = new
    /\ out_vec = vec4_default
    /\ out_mat = mat4_identity
    /\ unit_in = TRUE

\* the chain goes on with r; translations beyond MaxCoord are cut off
Step(name, r, u) ==
    /\ InRange(r.translation)
    /\ a' = r
    /\ op' = name
    /\ unit_in' = u
    /\ UNCHANGED <<b, c, v, out_rbt, out_vec, out_mat>>

\* a = Rbt::new()
SeqNew ==
    Step("new", new, TRUE)

\* a = an operand, built by from_t, from_r or from_t_r
SeqFrom ==
    \E x \in SeqInputs : Step("from", x, is_unit(x.rotation))

\* a = a.inverse()
SeqInverse ==
    Step("inverse", inverse(a), unit_in)

\* a = &a * &x
SeqCompose ==
    \E x \in SeqInputs :
        Step("mul", mul(a, x), unit_in /\ is_unit(x.rotation))

\* a = &x * &a
SeqComposeLeft ==
    \E x \in SeqInputs :
        Step("mul", mul(x, a), unit_in /\ is_unit(x.rotation))

\* a = Rbt::do_m_to_o_wrt_a(&x, &a, &x): x applied to a in x's own frame
SeqDoMToOWrtA ==
    \E x \in SeqInputs :
        Step("do_m_to_o_wrt_a", do_m_to_o_wrt_a(x, a, x),
             unit_in /\ is_unit(x.rotation))

NextSeq ==
    \/ SeqNew
    \/ SeqFrom
    \/ SeqInverse
    \/ SeqCompose
    \/ SeqComposeLeft
    \/ SeqDoMToOWrtA

SpecSeq ==
    InitSeq /\ [][NextSeq]_vars


----------------------------------------------------------------------------
(* Properties *)

\* Mat4 * Mat4 on general matrices, columns first: the reference that
\* composition is compared with
mat4_mul(m, n) ==
    [j \in 1..4 |->
        [i \in 1..4 |->
            f_add(f_add(f_mul(m[1][i], n[j][1]), f_mul(m[2][i], n[j][2])),
                  f_add(f_mul(m[3][i], n[j][3]), f_mul(m[4][i], n[j][4])))]]

mat4_eq(m, n) ==
    \A j \in 1..4 : vec_eq(m[j], n[j])

\* the identity rotation written with the other sign: (0, 0, 0, -1)
neg_identity ==
    [translation |-> vec3_default, rotation |-> quat_neg(quat_default)]

UnitOperands ==
    is_unit(a.rotation) /\ is_unit(b.rotation)

\* C1, as the spec states it: for every x with a unit rotation,
\* compose(x, inverse(x)) and compose(inverse(x), x) both equal Rbt::new(),
\* zero translation and rotation (0, 0, 0, 1).
C1_InverseLawAsStated ==
    (op = "inverse" /\ is_unit(a.rotation)) =>
        /\ eq(mul(a, out_rbt), new)
        /\ eq(mul(out_rbt, a), new)

\* C1, amended: for every x with a unit rotation, compose(x, inverse(x)) and
\* compose(inverse(x), x) both have zero translation and the rotation
\* (0, 0, 0, -1): the identity rotation, with the sign of the quaternion
\* flipped.
C1_InverseLawUpToSign ==
    (op = "inverse" /\ is_unit(a.rotation)) =>
        /\ eq(mul(a, out_rbt), neg_identity)
        /\ eq(mul(out_rbt, a), neg_identity)

C1_Witness ==
    /\ op = "inverse"
    /\ a = from_t_r(TransSamples[1], QuatSamples[2])
    /\ eq(mul(a, out_rbt), neg_identity)

\* C2, as the spec states it: for all o and a with unit rotations,
\* do_m_to_o_wrt_a(identity, o, a) equals o, translation and rotation.
C2_ChangeOfBasisAsStated ==
    (op = "do_m_to_o_wrt_a" /\ eq(a, new) /\ is_unit(b.rotation)
        /\ is_unit(c.rotation)) =>
        eq(out_rbt, b)

\* C2, amended: for all o and a with unit rotations,
\* do_m_to_o_wrt_a(identity, o, a) has the translation of o and the rotation
\* quaternion of o negated (the same rotation as o's).
C2_ChangeOfBasisUpToSign ==
    (op = "do_m_to_o_wrt_a" /\ eq(a, new) /\ is_unit(b.rotation)
        /\ is_unit(c.rotation)) =>
        /\ vec_eq(out_rbt.translation, b.translation)
        /\ vec_eq(out_rbt.rotation, quat_neg(b.rotation))

C2_Witness ==
    /\ op = "do_m_to_o_wrt_a"
    /\ a = new
    /\ b = from_t_r(TransSamples[2], QuatSamples[3])
    /\ c = from_t_r(TransSamples[1], QuatSamples[2])
    /\ vec_eq(out_rbt.rotation, quat_neg(b.rotation))

\* C3: along any chain of compose, inverse and do_m_to_o_wrt_a that starts
\* from transforms with unit rotations the rotation kept has norm 1, and the
\* rotation a compose leaves is normalized whatever went in.
C3_RotationStaysUnit ==
    /\ unit_in => is_unit(a.rotation)
    /\ op \in {"mul", "do_m_to_o_wrt_a"} => is_unit(a.rotation)

\* a chain from unit rotations that has reached, by a compose, a translation
\* and a rotation that no operand, no inverse of an operand and no product
\* of two of these has
C3_Witness ==
    LET ends  == SeqInputs \cup {new} \cup {inverse(x) : x \in SeqInputs}
        short == {x.rotation : x \in ends}
                     \cup {mul(x, y).rotation : x \in ends, y \in ends}
    IN  /\ unit_in
        /\ op = "mul"
        /\ a.rotation \notin short
        /\ ~vec_eq(a.translation, vec3_default)

\* C4: for every x with a unit rotation, compose(Rbt::new(), x) equals x and
\* compose(x, Rbt::new()) equals x, translation and rotation.
C4_IdentityLaws ==
    (op = "mul" /\ UnitOperands) =>
        /\ eq(a, new) => eq(out_rbt, b)
        /\ eq(b, new) => eq(out_rbt, a)
        /\ eq(mul(new, out_rbt), out_rbt)
        /\ eq(mul(out_rbt, new), out_rbt)

C4_Witness ==
    /\ op = "mul"
    /\ a = new
    /\ b = from_t_r(TransSamples[2], QuatSamples[2])
    /\ eq(out_rbt, b)

\* C5: for all a, b, c with unit rotations, compose(compose(a, b), c) equals
\* compose(a, compose(b, c)), translation and rotation.
C5_Associativity ==
    (op = "mul" /\ UnitOperands) =>
        \A z \in RbtInputs :
            is_unit(z.rotation) => eq(mul(out_rbt, z), mul(a, mul(b, z)))

C5_Witness ==
    /\ op = "mul"
    /\ a = from_t_r(TransSamples[1], QuatSamples[2])
    /\ b = from_t_r(TransSamples[2], QuatSamples[3])
    /\ \E z \in RbtInputs :
           /\ z = from_t_r(TransSamples[2], QuatSamples[2])
           /\ eq(mul(out_rbt, z), mul(a, mul(b, z)))
           /\ ~eq(mul(out_rbt, z), mul(z, out_rbt))

\* C6: apply(x, v) has xyz = r * v.xyz + t * v.w and the fourth component
\* v.w; a point (w = 1) goes to r * p + t, a direction (w = 0) to r * d
\* whatever t is, and with t = (1, 0, 0) and r a quarter turn about Z the
\* point (0, 1, 0, 1) goes to (0, 0, 0, 1).
C6_ApplyCorrect ==
    op = "mul_vec4" =>
        LET r == a.rotation
            t == a.translation
            p == truncate(v)
        IN  /\ f_eq(out_vec[4], v[4])
            /\ vec_eq(truncate(out_vec),
                      vec3_add(quat_mul_vec3(r, p), vec3_scale(t, v[4])))
            /\ v[4] = One =>
                   vec_eq(truncate(out_vec), vec3_add(quat_mul_vec3(r, p), t))
            /\ v[4] = Zero =>
                   /\ vec_eq(truncate(out_vec), quat_mul_vec3(r, p))
                   /\ \A s \in TransInputs :
                          vec_eq(mul_vec4(from_t_r(s, r), v), out_vec)
            /\ (a = from_t_r(TransSamples[1], QuatSamples[2])
                    /\ v = VecSamples[1]) =>
                   out_vec = <<Zero, Zero, Zero, One>>

C6_Witness ==
    /\ op = "mul_vec4"
    /\ a = from_t_r(<<One, Zero, Zero>>, <<Zero, Zero, Sqrt2Half, Sqrt2Half>>)
    /\ v = <<Zero, One, Zero, One>>
    /\ out_vec = <<Zero, Zero, Zero, One>>

\* C7: for every x with a unit rotation, from_mat4(to_mat4(x)) has the
\* translation of x and the rotation of x or its negative; to_mat4(x) is the
\* rotation matrix of x.rotation with the last column (t.x, t.y, t.z, 1).
C7_MatrixRoundTrip ==
    (op = "from_mat4" /\ is_unit(a.rotation)) =>
        /\ vec_eq(out_rbt.translation, a.translation)
        /\ \/ vec_eq(out_rbt.rotation, a.rotation)
           \/ vec_eq(out_rbt.rotation, quat_neg(a.rotation))
        /\ \A j \in 1..3 : vec_eq(out_mat[j], mat4_from_quat(a.rotation)[j])
        /\ vec_eq(out_mat[4], extend(a.translation, One))

\* a round trip that gives the rotation back with the other sign
C7_Witness ==
    /\ op = "from_mat4"
    /\ a = from_t_r(TransSamples[2], QuatSamples[3])
    /\ vec_eq(out_rbt.rotation, quat_neg(a.rotation))
    /\ vec_eq(out_rbt.translation, a.translation)

\* C8: for all a and b with unit rotations, to_mat4(compose(a, b)) is the
\* matrix product to_mat4(a) * to_mat4(b).
C8_MatchesMatrixProduct ==
    (op = "mul" /\ UnitOperands) =>
        mat4_eq(to_mat4(out_rbt), mat4_mul(to_mat4(a), to_mat4(b)))

C8_Witness ==
    /\ op = "mul"
    /\ a = from_t_r(TransSamples[2], QuatSamples[3])
    /\ b = from_t_r(TransSamples[1], QuatSamples[2])
    /\ mat4_eq(to_mat4(out_rbt), mat4_mul(to_mat4(a), to_mat4(b)))
    /\ ~mat4_eq(to_mat4(out_rbt), mat4_mul(to_mat4(b), to_mat4(a)))

\* C9, as the spec states it: compose(a, b) applies a and then b, so
\* apply(compose(a, b), p) equals apply(b, apply(a, p)).
C9_AThenBAsStated ==
    (op = "mul" /\ UnitOperands) =>
        \A p \in VecInputs :
            vec_eq(mul_vec4(out_rbt, p), mul_vec4(b, mul_vec4(a, p)))

\* C9, amended: compose(a, b) applies b and then a:
\* apply(compose(a, b), p) equals apply(a, apply(b, p)) for every 4-vector p.
C9_BThenA ==
    (op = "mul" /\ UnitOperands) =>
        \A p \in VecInputs :
            vec_eq(mul_vec4(out_rbt, p), mul_vec4(a, mul_vec4(b, p)))

C9_Witness ==
    /\ op = "mul"
    /\ a = from_t_r(TransSamples[1], QuatSamples[2])
    /\ b = from_t_r(TransSamples[2], QuatSamples[1])
    /\ \E p \in VecInputs :
           /\ vec_eq(mul_vec4(out_rbt, p), mul_vec4(a, mul_vec4(b, p)))
           /\ ~vec_eq(mul_vec4(out_rbt, p), mul_vec4(b, mul_vec4(a, p)))

\* C10: for every x with a unit rotation and every 4-vector v,
\* apply(inverse(x), apply(x, v)) and apply(x, apply(inverse(x), v)) equal v;
\* inverse(x) has the rotation (x, y, z, -w) and the translation
\* -(inverse rotation * x.translation).
C10_InverseUndoesApply ==
    (op = "inverse" /\ is_unit(a.rotation)) =>
        /\ \A p \in VecInputs :
               /\ vec_eq(mul_vec4(out_rbt, mul_vec4(a, p)), p)
               /\ vec_eq(mul_vec4(a, mul_vec4(out_rbt, p)), p)
        /\ out_rbt.rotation = <<a.rotation[1], a.rotation[2], a.rotation[3],
                                f_neg(a.rotation[4])>>
        /\ out_rbt.translation =
               vec3_neg(quat_mul_vec3(out_rbt.rotation, a.translation))

C10_Witness ==
    /\ op = "inverse"
    /\ a = from_t_r(TransSamples[2], QuatSamples[3])
    /\ \E p \in VecInputs :
           /\ p[4] = Two
           /\ ~vec_eq(mul_vec4(a, p), p)
           /\ vec_eq(mul_vec4(out_rbt, mul_vec4(a, p)), p)

=============================================================================
